---- MODULE Spec2Model ----
\* Batch conversion scheduler (src/src/converters/batch_service.py, class
\* BatchService): the registry of tasks, the monitor thread started by
\* start(), the pool workers running _process_task, and the caller's API
\* (add_file_task, start, cancel, reset).
\*
\* Granularity: every `with self.lock:` region is one atomic step; reads of
\* shared attributes made outside the lock by the monitor thread are separate
\* steps.  The API calls are made by one caller thread (the UI thread in
\* src/src/ui/app_window.py) and are atomic steps: start() and cancel() hold
\* no lock but read and write only `running`, `cancel_requested` and
\* len(pending_tasks), which no other thread changes between start()'s reads
\* (the monitor writes `running` only on its way out, after its last claim).
\* reset() is `if running: cancel()` followed by the locked clear; every
\* interleaving inside it is also produced by Cancel followed later by Reset.
\*
\* Time: the variable clock is the reading time.time() gives.  Spec keeps it at
\* its first reading, since no decision of the scheduler depends on it (the
\* history field ends of a task counts the writes of its end_time); SnapSpec,
\* the specification of the progress snapshot, lets it move.
\*
\* Further specifications: FairSpec adds the scheduling of the threads;
\* ActiveSpec starts from a run at work; ThreadsSpec adds a second caller
\* thread, whose start() is two steps; CallbackSpec takes every progress
\* callback in two steps; ConverterSpec is the simpler scheduler of
\* src/src/converters/batch_converter.py (class BatchConverter).
EXTENDS Naturals, Integers, Sequences, FiniteSets, TLC

\* ---------------------------------------------------------------- bounds

\* Number of API calls (add_file_task, start, cancel, reset) the caller makes.
MaxCalls == 5
\* self.max_workers, scaled down (the program computes min(32, cpus + 4)).
max_workers == 2
\* Largest number of tasks in the registries the snapshot is computed on.
MaxTotal == 50
\* Largest reading of the clock (the first reading is 1).
MaxClock == 2

\* ---------------------------------------------------------------- values

\* Texts are sequences of words, so that "contains" can be decided.
Contains(hay, needle) ==
    \E i \in 1..(Len(hay) + 1) :
        /\ i + Len(needle) - 1 <= Len(hay)
        /\ SubSeq(hay, i, i + Len(needle) - 1) = needle

\* Python None for an optional text; Some(t) is a text that is set.
None == <<>>
Some(t) == <<t>>

\* What one call of the Conversion Function can do: return (True, message, _),
\* return (False, message, _), or raise an exception of some type with a message.
ReturnOk == [kind |-> "return", success |-> TRUE, type |-> <<>>, message |-> <<"converted">>]
ReturnFail == [kind |-> "return", success |-> FALSE, type |-> <<>>, message |-> <<"bad", "format">>]
Raises == [kind |-> "raise", success |-> FALSE, type |-> <<"OSError">>, message |-> <<"disk", "full">>]
NoOutcome == [kind |-> "none", success |-> FALSE, type |-> <<>>, message |-> <<>>]
Outcomes == {ReturnOk, ReturnFail, Raises}

\* get_detailed_error_info: type(exception).__name__ and str(exception)
\* (traceback and caller are used for logging only).
get_detailed_error_info(exception) ==
    [type |-> exception.type, message |-> exception.message]

\* format_error_for_log: "[Error] {type}: {message}\n..." (what the worker logs).
format_error_for_log(error_info) ==
    <<"[Error]">> \o error_info.type \o <<":">> \o error_info.message

Terminal == {"completed", "failed", "cancelled"}

\* ----------------------------------------------------------------- state

VARIABLES
    tasks,              \* self.tasks: id -> task record
    pending_tasks,      \* self.pending_tasks: list of ids
    processing_tasks,   \* self.processing_tasks: keys of the dict
    completed_tasks,    \* self.completed_tasks: list of ids
    failed_tasks,       \* self.failed_tasks: list of ids
    running,            \* self.running
    cancel_requested,   \* self.cancel_requested
    mon,                \* monitor threads: run number -> position in _monitor_progress
    workers,            \* work items submitted to the pool and not yet finished
    runs,               \* number of accepted start() calls (history)
    calls,              \* number of API calls made so far (history)
    lastCall,           \* the last API call and what it returned (history)
    epoch,              \* number of reset() calls (history)
    clock,              \* the reading time.time() gives
    snapshots,          \* the last two values _get_progress_info() returned (history)
    other,              \* a second caller thread: its position in start()
    cbargs,             \* callback arguments a monitor has evaluated and not yet passed
    converter           \* the BatchConverter object and its threads

registry == <<tasks, pending_tasks, processing_tasks, completed_tasks, failed_tasks>>
vars == <<tasks, pending_tasks, processing_tasks, completed_tasks, failed_tasks,
          running, cancel_requested, mon, workers, runs, calls, lastCall, epoch,
          clock, snapshots, other, cbargs, converter>>

\* An API call and its return value: ok for start()'s boolean, id for
\* add_file_task's task id (0 where the call returns nothing).
Returned(op, ok, id) == [op |-> op, ok |-> ok, id |-> id]

\* Elements of a list, as a set.
Range(s) == {s[i] : i \in DOMAIN s}

\* BatchConverter.__init__ (batch_converter.py, lines 44-55): an empty queue,
\* the two counters at 0, no run.  tasks_queue is the number of tasks in the
\* queue; waiting and converting count the work items submitted to the pool
\* that have not begun and that are inside convert_image; failed counts the
\* tasks whose status became "failed"; monitor holds the position of every
\* monitor thread.  History: dispatched, the number of tasks the last accepted
\* start() submitted; since, the number of add_task() calls after it;
\* during, an add_task() was made while a run was active; stopped, a stop()
\* has ended a run; calls, the number of API calls made.
NewConverter ==
    [tasks_queue |-> 0, total_count |-> 0, completed_count |-> 0,
     running |-> FALSE, waiting |-> 0, converting |-> 0, failed |-> 0,
     monitor |-> <<>>, dispatched |-> 0, since |-> 0, during |-> FALSE,
     stopped |-> FALSE, calls |-> 0]

\* What the actions of the BatchService leave alone: no second caller thread
\* is inside start(), no callback arguments are held, and the BatchConverter,
\* a separate object, is as constructed.
Apart ==
    /\ other = "idle"
    /\ cbargs = {}
    /\ converter = NewConverter

\* BatchService.__init__
Init ==
    /\ tasks = [i \in {} |-> NoOutcome]
    /\ pending_tasks = <<>>
    /\ processing_tasks = {}
    /\ completed_tasks = <<>>
    /\ failed_tasks = <<>>
    /\ running = FALSE
    /\ cancel_requested = FALSE
    /\ mon = <<>>
    /\ workers = {}
    /\ runs = 0
    /\ calls = 0
    /\ lastCall = Returned("init", FALSE, 0)
    /\ epoch = 0
    /\ clock = 1
    /\ snapshots = <<>>
    /\ Apart

\* ------------------------------------------------------------ caller API

\* The task dict built by add_file_task (lines 35-44), with the history
\* fields the properties below read: sub, the number of accepted start()
\* calls before the submission; own, what the task's own conversion call
\* returned; seen, the task was pending when the monitor observed the
\* cancellation flag; pac, the task was processing when cancel() was called;
\* mid, its own worker was past its cancellation check when cancel() was called;
\* claims, how often the task was claimed; cseq, its place in the sequence of
\* claims made on this registry; ends, how often a result was recorded on it
\* (the two counts stop at 2).
NewTask ==
    [status |-> "pending", error |-> None,
     start_time |-> None, end_time |-> None, duration |-> 0,
     sub |-> runs, own |-> NoOutcome, seen |-> FALSE, pac |-> FALSE, mid |-> FALSE,
     claims |-> 0, cseq |-> 0, ends |-> 0]

\* Mutant of NextTaskId: the id is taken from the length of the pending list.
NextTaskIdFromPending == Len(pending_tasks)

\* Line 47: task_id = len(self.tasks)
NextTaskId == Cardinality(DOMAIN tasks)

\* add_file_task: under the lock, id = len(self.tasks), store, append to pending.
add_file_task ==
    /\ calls < MaxCalls
    /\ calls' = calls + 1
    /\ LET task_id == NextTaskId IN
        /\ tasks' = [i \in DOMAIN tasks \cup {task_id} |->
                        IF i = task_id THEN NewTask ELSE tasks[i]]
        /\ pending_tasks' = Append(pending_tasks, task_id)
        /\ lastCall' = Returned("add_file_task", TRUE, task_id)
    /\ UNCHANGED <<processing_tasks, completed_tasks, failed_tasks, running,
                   cancel_requested, mon, workers, runs, epoch>>
    /\ UNCHANGED <<clock, snapshots, other, cbargs, converter>>

\* Mutant of StartRefused: the empty-batch refusal is missing.
StartRefusedOnlyWhenRunning == running

\* start(): the two refusals (lines 119-125).
StartRefused == running \/ Len(pending_tasks) = 0

\* start(): refuse, or mark the run active, clear the flag, create the pool
\* and the monitor thread.
start ==
    /\ calls < MaxCalls
    /\ calls' = calls + 1
    /\ IF StartRefused
       THEN /\ lastCall' = Returned("start", FALSE, 0)
            /\ UNCHANGED <<registry, running, cancel_requested, mon, workers, runs, epoch>>
       ELSE /\ running' = TRUE
            /\ cancel_requested' = FALSE
            /\ runs' = runs + 1
            /\ mon' = Append(mon, "while_pending")
            /\ lastCall' = Returned("start", TRUE, 0)
            /\ UNCHANGED <<registry, workers, epoch>>
    /\ UNCHANGED <<clock, snapshots, other, cbargs, converter>>

\* start() called on a second thread, in the two steps the code makes with no
\* lock: the two checks (lines 119-125), where a refusal returns False ...
OtherStartChecks ==
    /\ other = "idle"
    /\ calls < MaxCalls
    /\ calls' = calls + 1
    /\ IF StartRefused
       THEN /\ lastCall' = Returned("start", FALSE, 0)
            /\ UNCHANGED other
       ELSE /\ other' = "checked"
            /\ UNCHANGED lastCall
    /\ UNCHANGED <<registry, running, cancel_requested, mon, workers, runs, epoch>>
    /\ UNCHANGED <<clock, snapshots, cbargs, converter>>

\* ... and, the checks passed, lines 127-140: mark the run active, clear the
\* flag, create the pool and the monitor thread, return True.
OtherStartActs ==
    /\ other = "checked"
    /\ other' = "idle"
    /\ running' = TRUE
    /\ cancel_requested' = FALSE
    /\ runs' = runs + 1
    /\ mon' = Append(mon, "while_pending")
    /\ lastCall' = Returned("start", TRUE, 0)
    /\ UNCHANGED <<registry, workers, epoch, calls>>
    /\ UNCHANGED <<clock, snapshots, cbargs, converter>>

start_on_other_thread ==
    \/ OtherStartChecks
    \/ OtherStartActs

\* is_running()
is_running == running

\* get_results(): the counts; success_rate is left out of the record.
get_results ==
    [total |-> Cardinality(DOMAIN tasks),
     completed |-> Len(completed_tasks),
     failed |-> Len(failed_tasks)]

\* Mutant of CancelIgnored: the flag is set whether or not a run is active.
CancelIgnoredNever == FALSE

\* Lines 254-255: `if not self.running: return`.
CancelIgnored == ~running

\* cancel(): nothing when no run is active, else set the flag.  The history
\* fields pac and mid record where each task stood at the call.
cancel ==
    /\ calls < MaxCalls
    /\ calls' = calls + 1
    /\ lastCall' = Returned("cancel", TRUE, 0)
    /\ IF CancelIgnored
       THEN UNCHANGED <<cancel_requested, tasks>>
       ELSE /\ cancel_requested' = TRUE
            /\ tasks' = [i \in DOMAIN tasks |->
                           [tasks[i] EXCEPT
                              !.pac = @ \/ tasks[i].status = "processing",
                              !.mid = @ \/ \E w \in workers :
                                         w.id = i /\ w.ep = epoch /\ w.pc # "queued"]]
    /\ UNCHANGED <<pending_tasks, processing_tasks, completed_tasks, failed_tasks,
                   running, mon, workers, runs, epoch>>
    /\ UNCHANGED <<clock, snapshots, other, cbargs, converter>>

\* reset(): cancel() when running, then clear the five collections under the lock.
reset ==
    /\ calls < MaxCalls
    /\ calls' = calls + 1
    /\ lastCall' = Returned("reset", TRUE, 0)
    /\ epoch' = epoch + 1
    /\ cancel_requested' = (cancel_requested \/ running)
    /\ tasks' = [i \in {} |-> NoOutcome]
    /\ pending_tasks' = <<>>
    /\ processing_tasks' = {}
    /\ completed_tasks' = <<>>
    /\ failed_tasks' = <<>>
    /\ UNCHANGED <<running, mon, workers, runs>>
    /\ UNCHANGED <<clock, snapshots, other, cbargs, converter>>

\* ------------------------------------------------- monitor thread (one per run)

\* Mutant of available_workers: the tasks in flight are not subtracted.
available_workers_ignoring_processing == max_workers

\* Line 151: available_workers = self.max_workers - len(self.processing_tasks)
available_workers == max_workers - Cardinality(processing_tasks)

\* Mutant of ClaimCount: one pass claims a single task, however many workers
\* are free.
ClaimCountOne ==
    IF available_workers > 0 /\ Len(pending_tasks) > 0 THEN 1 ELSE 0

\* Lines 152-153: how many tasks one pass through the locked region claims.
ClaimCount ==
    IF available_workers > 0 /\ Len(pending_tasks) > 0
    THEN IF available_workers < Len(pending_tasks)
         THEN available_workers ELSE Len(pending_tasks)
    ELSE 0

\* Mutant of ClaimedIds: pop() takes the ids from the back of the list.
ClaimedIdsFromBack ==
    Range(SubSeq(pending_tasks, Len(pending_tasks) - ClaimCount + 1, Len(pending_tasks)))

\* Line 157, repeated: pending_tasks.pop(0) takes ids from the front.
ClaimedIds == Range(SubSeq(pending_tasks, 1, ClaimCount))

\* Mutant of PendingAfterClaim: one pass pops a single id, whatever it claims.
PendingAfterClaimPopsOne ==
    IF ClaimCount > 0 THEN Tail(pending_tasks) ELSE pending_tasks

\* Mutant of PendingAfterClaim: the front id is read but not popped.
PendingAfterClaimNoPop == pending_tasks

\* Line 157, repeated: what pending_tasks holds after the pops.
PendingAfterClaim == SubSeq(pending_tasks, ClaimCount + 1, Len(pending_tasks))

\* Line 144, first part: `while self.running and (len(self.pending_tasks) > 0 ...`
MonWhilePending(r) ==
    /\ mon[r] = "while_pending"
    /\ mon' = [mon EXCEPT ![r] =
                 IF ~running THEN "exit"
                 ELSE IF Len(pending_tasks) > 0 THEN "check_cancel"
                 ELSE "while_processing"]
    /\ UNCHANGED <<registry, running, cancel_requested, workers, runs,
                   calls, lastCall, epoch>>
    /\ UNCHANGED <<clock, snapshots, other, cbargs, converter>>

\* Line 144, second part: `... or len(self.processing_tasks) > 0)`
MonWhileProcessing(r) ==
    /\ mon[r] = "while_processing"
    /\ mon' = [mon EXCEPT ![r] =
                 IF Cardinality(processing_tasks) > 0 THEN "check_cancel" ELSE "exit"]
    /\ UNCHANGED <<registry, running, cancel_requested, workers, runs,
                   calls, lastCall, epoch>>
    /\ UNCHANGED <<clock, snapshots, other, cbargs, converter>>

\* Lines 145-147: `if self.cancel_requested: break`.  Nothing is written; the
\* history field seen marks the tasks that are pending at this observation.
MonCheckCancel(r) ==
    /\ mon[r] = "check_cancel"
    /\ IF cancel_requested
       THEN /\ mon' = [mon EXCEPT ![r] = "exit"]
            /\ tasks' = [i \in DOMAIN tasks |->
                           [tasks[i] EXCEPT !.seen = @ \/ tasks[i].status = "pending"]]
       ELSE /\ mon' = [mon EXCEPT ![r] = "claim"]
            /\ UNCHANGED tasks
    /\ UNCHANGED <<pending_tasks, processing_tasks, completed_tasks, failed_tasks,
                   running, cancel_requested, workers, runs, calls, lastCall, epoch>>
    /\ UNCHANGED <<clock, snapshots, other, cbargs, converter>>

\* The place of a claimed id in the order of the pops of this pass, counted on
\* from the claims made on this registry before (history).
ClaimSeq(i) ==
    LET Pos(j) == CHOOSE k \in DOMAIN pending_tasks : pending_tasks[k] = j
    IN Cardinality({j \in DOMAIN tasks : tasks[j].cseq # 0})
       + Cardinality({j \in ClaimedIds : Pos(j) <= Pos(i)})

\* Lines 150-172: the locked region; each claimed task becomes processing and
\* is submitted to the pool.  A work item keeps the task id it was given
\* (id); ep and run are history: the registry generation and the run (the
\* pool) it was submitted in.
MonClaim(r) ==
    /\ mon[r] = "claim"
    /\ mon' = [mon EXCEPT ![r] = "callback"]
    /\ tasks' = [i \in DOMAIN tasks |->
                   IF i \in ClaimedIds
                   THEN [tasks[i] EXCEPT !.status = "processing",
                                         !.start_time = Some(clock),
                                         !.claims = IF @ < 2 THEN @ + 1 ELSE @,
                                         !.cseq = ClaimSeq(i)]
                   ELSE tasks[i]]
    /\ pending_tasks' = PendingAfterClaim
    /\ processing_tasks' = processing_tasks \cup ClaimedIds
    /\ workers' = workers \cup
                    {[id |-> i, ep |-> epoch, run |-> r, pc |-> "queued",
                      out |-> NoOutcome] : i \in ClaimedIds}
    /\ UNCHANGED <<completed_tasks, failed_tasks, running, cancel_requested,
                   runs, calls, lastCall, epoch>>
    /\ UNCHANGED <<clock, snapshots, other, cbargs, converter>>

\* Lines 174-183: the progress callback, then time.sleep(0.1).
MonCallback(r) ==
    /\ mon[r] = "callback"
    /\ mon' = [mon EXCEPT ![r] = "while_pending"]
    /\ UNCHANGED <<registry, running, cancel_requested, workers, runs,
                   calls, lastCall, epoch>>
    /\ UNCHANGED <<clock, snapshots, other, cbargs, converter>>

\* Lines 186-189: executor.shutdown(wait=False), which lets submitted work go
\* on, then self.running = False.
MonExit(r) ==
    /\ mon[r] = "exit"
    /\ mon' = [mon EXCEPT ![r] = "final_callback"]
    /\ running' = FALSE
    /\ UNCHANGED <<registry, cancel_requested, workers, runs, calls, lastCall, epoch>>
    /\ UNCHANGED <<clock, snapshots, other, cbargs, converter>>

\* Lines 192-199: the final progress callback.
MonFinal(r) ==
    /\ mon[r] = "final_callback"
    /\ mon' = [mon EXCEPT ![r] = "done"]
    /\ UNCHANGED <<registry, running, cancel_requested, workers, runs,
                   calls, lastCall, epoch>>
    /\ UNCHANGED <<clock, snapshots, other, cbargs, converter>>

_monitor_progress ==
    \E r \in DOMAIN mon :
        \/ MonWhilePending(r)
        \/ MonWhileProcessing(r)
        \/ MonCheckCancel(r)
        \/ MonClaim(r)
        \/ MonCallback(r)
        \/ MonExit(r)
        \/ MonFinal(r)

\* The callback statement of lines 175-180 and 192-197 in the two steps it
\* takes.  First the readings made with no lock, len(self.completed_tasks) +
\* len(self.failed_tasks) and len(self.tasks) (taken together here) ...
MonEvaluateArgs(r) ==
    /\ mon[r] \in {"callback", "final_callback"}
    /\ ~\E e \in cbargs : e.run = r
    /\ cbargs' = cbargs \cup
                   {[run |-> r,
                     completed |-> Len(completed_tasks) + Len(failed_tasks),
                     total |-> Cardinality(DOMAIN tasks)]}
    /\ UNCHANGED <<registry, running, cancel_requested, mon, workers, runs,
                   calls, lastCall, epoch>>
    /\ UNCHANGED <<clock, snapshots, other, converter>>

\* ... then self._get_progress_info(), which builds the snapshot of the state
\* it finds under the lock, and the call of progress_callback with the three
\* values; after it the loop sleeps (line 183) or the thread ends.
MonInvoke(r) ==
    /\ \E e \in cbargs :
          /\ e.run = r
          /\ cbargs' = cbargs \ {e}
    /\ mon' = [mon EXCEPT ![r] = IF @ = "callback" THEN "while_pending" ELSE "done"]
    /\ UNCHANGED <<registry, running, cancel_requested, workers, runs,
                   calls, lastCall, epoch>>
    /\ UNCHANGED <<clock, snapshots, other, converter>>

\* _monitor_progress with its callbacks in two steps.
_monitor_progress_by_argument ==
    \E r \in DOMAIN mon :
        \/ MonWhilePending(r)
        \/ MonWhileProcessing(r)
        \/ MonCheckCancel(r)
        \/ MonClaim(r)
        \/ MonEvaluateArgs(r)
        \/ MonInvoke(r)
        \/ MonExit(r)

\* ----------------------------------------------------- pool workers (_process_task)

\* Mutant of ResultStatus: the cancellation flag is looked at again after the
\* conversion, and a set flag relabels the finished task cancelled.
ResultStatusRecheckingFlag(out) ==
    IF cancel_requested THEN "cancelled"
    ELSE IF out.kind = "return" /\ out.success THEN "completed" ELSE "failed"

\* Lines 229-235 and 244: the status a finished call is recorded with.
ResultStatus(out) ==
    IF out.kind = "return" /\ out.success THEN "completed" ELSE "failed"

\* Lines 234 and 245: task["error"] = message on success=False, and
\* task["error"] = error_info["message"] on an exception; untouched on success.
ResultError(out, old) ==
    IF out.kind = "raise" THEN Some(get_detailed_error_info(out).message)
    ELSE IF out.success THEN old
    ELSE Some(out.message)

\* Mutant of InProcessing: the worker records without looking at the
\* processing dict.
InProcessingUnchecked(task_id) == TRUE

\* Mutant of InProcessing: the worker also records on a task that is
\* already finished.
InProcessingOrFinished(task_id) ==
    \/ task_id \in processing_tasks
    \/ task_id \in DOMAIN tasks /\ tasks[task_id].status \in Terminal

\* Mutant of InProcessing: a worker never finds its task in processing_tasks,
\* so no result is ever recorded.
InProcessingNever(task_id) == FALSE

\* Lines 206, 224 and 242: `if task_id in self.processing_tasks:`
InProcessing(task_id) == task_id \in processing_tasks

\* Lines 209-210, 226-227 and 246-247: end_time = time.time() and
\* duration = end_time - start_time, written on a task record.
Stamped(task) ==
    [task EXCEPT !.end_time = Some(clock),
                 !.duration = clock - task.start_time[1],
                 !.ends = IF @ < 2 THEN @ + 1 ELSE @]

\* Lines 203-212: the worker starts; with the flag set it relabels its task id
\* cancelled (if that id is in the processing dict) and returns without
\* converting, else it goes on to the conversion.  The read of the flag and
\* the locked region that follows it are one step.
WorkerBegin(w) ==
    /\ w.pc = "queued"
    /\ IF cancel_requested
       THEN /\ workers' = workers \ {w}
            /\ IF InProcessing(w.id)
               THEN /\ processing_tasks' = processing_tasks \ {w.id}
                    /\ tasks' = [tasks EXCEPT
                                   ![w.id] = [Stamped(@) EXCEPT !.status = "cancelled"]]
                    /\ failed_tasks' = Append(failed_tasks, w.id)
               ELSE UNCHANGED <<tasks, processing_tasks, failed_tasks>>
       ELSE /\ workers' = (workers \ {w}) \cup {[w EXCEPT !.pc = "converting"]}
            /\ UNCHANGED <<tasks, processing_tasks, failed_tasks>>
    /\ UNCHANGED <<pending_tasks, completed_tasks, running, cancel_requested, mon,
                   runs, calls, lastCall, epoch>>
    /\ UNCHANGED <<clock, snapshots, other, cbargs, converter>>

\* Lines 214-221: makedirs and convert_image run outside the lock and end by
\* returning or raising.  The history field own keeps what the call of the
\* task's own worker did.
WorkerReturn(w, out) ==
    /\ w.pc = "converting"
    /\ workers' = (workers \ {w}) \cup {[w EXCEPT !.pc = "returned", !.out = out]}
    /\ tasks' = IF w.ep = epoch THEN [tasks EXCEPT ![w.id].own = out] ELSE tasks
    /\ UNCHANGED <<pending_tasks, processing_tasks, completed_tasks, failed_tasks,
                   running, cancel_requested, mon, runs, calls, lastCall, epoch>>
    /\ UNCHANGED <<clock, snapshots, other, cbargs, converter>>

\* Lines 223-235 and 241-248: under the lock, if the id is in the processing
\* dict, pop it and record the result.
WorkerRecord(w) ==
    /\ w.pc = "returned"
    /\ workers' = workers \ {w}
    /\ IF InProcessing(w.id)
       THEN /\ processing_tasks' = processing_tasks \ {w.id}
            /\ tasks' = [tasks EXCEPT
                           ![w.id] = [Stamped(@) EXCEPT
                                        !.status = ResultStatus(w.out),
                                        !.error = ResultError(w.out, @)]]
            /\ IF ResultStatus(w.out) = "completed"
               THEN /\ completed_tasks' = Append(completed_tasks, w.id)
                    /\ UNCHANGED failed_tasks
               ELSE /\ failed_tasks' = Append(failed_tasks, w.id)
                    /\ UNCHANGED completed_tasks
       ELSE UNCHANGED registry
    /\ UNCHANGED <<pending_tasks, running, cancel_requested, mon,
                   runs, calls, lastCall, epoch>>
    /\ UNCHANGED <<clock, snapshots, other, cbargs, converter>>

_process_task ==
    \E w \in workers :
        \/ WorkerBegin(w)
        \/ \E out \in Outcomes : WorkerReturn(w, out)
        \/ WorkerRecord(w)

\* ------------------------------------------------ progress snapshot

\* Python floats are IEEE 754 doubles: 53 significant bits, results rounded to
\* nearest, ties to even.  A positive double is a record [m, e]: m its 53
\* significant bits, most significant first, e the exponent of m[1].
MantissaBits == 53
Zero == [m |-> <<>>, e |-> 0]

\* The k quotient bits after the binary point of r / n (r < n), appended to
\* acc, and the remainder left.
RECURSIVE LongDiv(_, _, _, _)
LongDiv(r, n, k, acc) ==
    IF k = 0 THEN [bits |-> acc, rem |-> r]
    ELSE IF 2 * r >= n THEN LongDiv(2 * r - n, n, k - 1, Append(acc, 1))
    ELSE LongDiv(2 * r, n, k - 1, Append(acc, 0))

\* r doubled k times until it reaches n.
RECURSIVE Normalize(_, _, _)
Normalize(r, n, k) == IF r >= n THEN [r |-> r, k |-> k] ELSE Normalize(2 * r, n, k + 1)

\* bits + 1, with the carry out of the top bit.
Increment(bits) ==
    LET zeros == {i \in DOMAIN bits : bits[i] = 0}
        p == CHOOSE i \in zeros : \A j \in zeros : j <= i
    IN IF zeros = {} THEN [bits |-> [i \in DOMAIN bits |-> 0], carry |-> 1]
       ELSE [bits |-> [i \in DOMAIN bits |->
                         IF i < p THEN bits[i] ELSE IF i = p THEN 1 ELSE 0],
             carry |-> 0]

\* The double nearest to the number whose bits (from exponent e down) are
\* given; sticky says that non-zero bits follow those given.
RoundToNearestEven(bits, sticky, e) ==
    LET keep == SubSeq(bits, 1, MantissaBits)
        guard == IF Len(bits) > MantissaBits THEN bits[MantissaBits + 1] ELSE 0
        st == sticky \/ \E i \in (MantissaBits + 2)..Len(bits) : bits[i] = 1
        up == guard = 1 /\ (st \/ keep[MantissaBits] = 1)
        r == Increment(keep)
    IN IF ~up THEN [m |-> keep, e |-> e]
       ELSE IF r.carry = 1
            THEN [m |-> <<1>> \o SubSeq(r.bits, 1, MantissaBits - 1), e |-> e + 1]
            ELSE [m |-> r.bits, e |-> e]

\* Python's d / n for ints 0 <= d <= n, n > 0: the correctly rounded quotient.
TrueDivide(d, n) ==
    IF d = 0 THEN Zero
    ELSE LET nz == Normalize(d, n, 0)
             q == LongDiv(nz.r - n, n, MantissaBits, <<>>)
         IN RoundToNearestEven(<<1>> \o q.bits, q.rem # 0, 0 - nz.k)

\* The bits of a natural number, most significant first.
RECURSIVE ToBits(_)
ToBits(n) == IF n = 0 THEN <<>> ELSE ToBits(n \div 2) \o <<n % 2>>

\* The bits of (bits[1..i] as a number) * c + carry, followed by acc.
RECURSIVE MulBits(_, _, _, _, _)
MulBits(bits, i, c, carry, acc) ==
    IF i = 0 THEN ToBits(carry) \o acc
    ELSE MulBits(bits, i - 1, c, (bits[i] * c + carry) \div 2,
                 <<(bits[i] * c + carry) % 2>> \o acc)

\* Python's x * c for a double x and a small int c: the rounded product.
Times(x, c) ==
    IF x = Zero THEN Zero
    ELSE LET prod == MulBits(x.m, Len(x.m), c, 0, <<>>)
         IN RoundToNearestEven(prod, FALSE, x.e + Len(prod) - MantissaBits)

\* The number a bit sequence stands for.
RECURSIVE FromBits(_)
FromBits(bits) ==
    IF bits = <<>> THEN 0
    ELSE 2 * FromBits(SubSeq(bits, 1, Len(bits) - 1)) + bits[Len(bits)]

\* Python's int(x) for a double x >= 0: the integer part.
Truncate(x) ==
    IF x = Zero \/ x.e < 0 THEN 0 ELSE FromBits(SubSeq(x.m, 1, x.e + 1))

\* Line 319: int((len(completed) + len(failed)) / len(tasks) * 100) if tasks else 0
percentage(done, total) ==
    IF total > 0 THEN Truncate(Times(TrueDivide(done, total), 100)) ELSE 0

\* Lines 281-282: the duration reported for a processing task,
\* `current_time - task["start_time"] if task["start_time"] else 0`.
LiveDuration(task) ==
    IF task.start_time # None /\ task.start_time[1] # 0
    THEN clock - task.start_time[1] ELSE 0

\* Mutant of StoredDuration: the duration of a finished task is computed from
\* the clock, like that of a processing task.
StoredDurationRecomputed(task) == clock - task.start_time[1]

\* Lines 297 and 308: the duration reported for a finished task, task["duration"].
StoredDuration(task) == task.duration

\* The ids of a set in ascending order (the processing dict keeps the order of
\* the claims, which are made in id order).
RECURSIVE Ascending(_)
Ascending(S) ==
    IF S = {} THEN <<>>
    ELSE LET least == CHOOSE i \in S : \A j \in S : i <= j
         IN <<least>> \o Ascending(S \ {least})

\* _get_progress_info(): the four lists (paths left out), the counts and the
\* percentage, computed under the lock.  The clock is read once per call here;
\* the code reads it once per processing task, within the same locked region.
_get_progress_info ==
    LET processing == Ascending(processing_tasks) IN
    [pending |-> [k \in DOMAIN pending_tasks |->
                    [status |-> tasks[pending_tasks[k]].status, duration |-> 0]],
     processing |-> [k \in DOMAIN processing |->
                    [status |-> tasks[processing[k]].status,
                     duration |-> LiveDuration(tasks[processing[k]])]],
     completed |-> [k \in DOMAIN completed_tasks |->
                    [status |-> tasks[completed_tasks[k]].status,
                     duration |-> StoredDuration(tasks[completed_tasks[k]])]],
     failed |-> [k \in DOMAIN failed_tasks |->
                    [status |-> tasks[failed_tasks[k]].status,
                     error |-> tasks[failed_tasks[k]].error,
                     duration |-> StoredDuration(tasks[failed_tasks[k]])]],
     total |-> Cardinality(DOMAIN tasks),
     completed_count |-> Len(completed_tasks),
     failed_count |-> Len(failed_tasks),
     percentage |-> percentage(Len(completed_tasks) + Len(failed_tasks),
                               Cardinality(DOMAIN tasks))]

\* A caller polls _get_progress_info(); the history keeps the last two values.
PollSnapshot ==
    /\ snapshots' = IF Len(snapshots) < 2
                    THEN Append(snapshots, _get_progress_info)
                    ELSE <<snapshots[2], _get_progress_info>>
    /\ UNCHANGED <<registry, running, cancel_requested, mon, workers, runs,
                   calls, lastCall, epoch, clock, other, cbargs, converter>>

\* time.time() moves on.
Tick ==
    /\ clock < MaxClock
    /\ clock' = clock + 1
    /\ UNCHANGED <<registry, running, cancel_requested, mon, workers, runs,
                   calls, lastCall, epoch, snapshots, other, cbargs, converter>>

\* ------------------------------------------- BatchConverter (batch_converter.py)

\* The BatchService and what is recorded about it: untouched by a BatchConverter.
service == <<tasks, pending_tasks, processing_tasks, completed_tasks, failed_tasks,
             running, cancel_requested, mon, workers, runs, calls, lastCall, epoch,
             clock, snapshots, other, cbargs>>

\* add_task (lines 57-62): queue the task, register it in results, count it.
add_task ==
    /\ converter.calls < MaxCalls
    /\ converter' = [converter EXCEPT !.tasks_queue = @ + 1,
                                      !.total_count = @ + 1,
                                      !.since = @ + 1,
                                      !.during = @ \/ converter.running,
                                      !.calls = @ + 1]
    /\ UNCHANGED service

\* start (lines 116-143): two refusals; else mark the run active, set
\* completed_count to 0, create the pool, submit every queued task to it and
\* start the monitor thread.
converter_start ==
    /\ converter.calls < MaxCalls
    /\ converter' =
         IF converter.running \/ converter.tasks_queue = 0
         THEN [converter EXCEPT !.calls = @ + 1]
         ELSE [converter EXCEPT !.calls = @ + 1,
                                !.running = TRUE,
                                !.completed_count = 0,
                                !.waiting = @ + converter.tasks_queue,
                                !.dispatched = converter.tasks_queue,
                                !.since = 0,
                                !.tasks_queue = 0,
                                !.monitor = Append(@, "while")]
    /\ UNCHANGED service

\* stop (lines 230-239): nothing when no run is active; else running = False
\* and executor.shutdown(wait=False), which lets the submitted items run.
stop ==
    /\ converter.calls < MaxCalls
    /\ converter' =
         IF ~converter.running
         THEN [converter EXCEPT !.calls = @ + 1]
         ELSE [converter EXCEPT !.calls = @ + 1,
                                !.running = FALSE,
                                !.stopped = TRUE]
    /\ UNCHANGED service

\* _process_task, lines 147-149: a pool thread (max_workers of them; the pool
\* of a stopped run and that of its successor are counted as one) takes a
\* work item and marks its task processing.
ConverterBegin ==
    /\ converter.waiting > 0
    /\ converter.converting < max_workers
    /\ converter' = [converter EXCEPT !.waiting = @ - 1, !.converting = @ + 1]
    /\ UNCHANGED service

\* Lines 160-170: the status a conversion outcome gives the task.
ConverterStatus(out) ==
    IF out.kind = "return" /\ out.success THEN "completed" ELSE "failed"

\* _process_task, lines 151-177: convert_image returns success or failure or
\* raises, the status becomes completed or failed, and the finally clause
\* counts the task under task_lock whatever happened.
ConverterEnd(out) ==
    /\ converter.converting > 0
    /\ converter' = [converter EXCEPT
                       !.converting = @ - 1,
                       !.failed = IF ConverterStatus(out) = "failed" THEN @ + 1 ELSE @,
                       !.completed_count = @ + 1]
    /\ UNCHANGED service

converter_process_task ==
    \/ ConverterBegin
    \/ \E out \in Outcomes : ConverterEnd(out)

\* Line 181: `while self.running and self.completed_count < self.total_count`.
ConverterLoopCondition ==
    converter.running /\ converter.completed_count < converter.total_count

\* _monitor_progress (lines 179-201): the loop test; the callback and the
\* sleep; after the loop the final callback, running = False, and
\* executor.shutdown(), which waits for the pool's items.
ConverterMonWhile(m) ==
    /\ converter.monitor[m] = "while"
    /\ converter' = [converter EXCEPT !.monitor[m] =
                       IF ConverterLoopCondition THEN "callback" ELSE "final_callback"]
    /\ UNCHANGED service

ConverterMonCallback(m) ==
    /\ converter.monitor[m] = "callback"
    /\ converter' = [converter EXCEPT !.monitor[m] = "while"]
    /\ UNCHANGED service

ConverterMonFinal(m) ==
    /\ converter.monitor[m] = "final_callback"
    /\ converter' = [converter EXCEPT !.monitor[m] = "exit"]
    /\ UNCHANGED service

ConverterMonExit(m) ==
    /\ converter.monitor[m] = "exit"
    /\ converter' = [converter EXCEPT !.monitor[m] = "shutdown", !.running = FALSE]
    /\ UNCHANGED service

ConverterMonShutdown(m) ==
    /\ converter.monitor[m] = "shutdown"
    /\ converter.waiting = 0 /\ converter.converting = 0
    /\ converter' = [converter EXCEPT !.monitor[m] = "done"]
    /\ UNCHANGED service

converter_monitor_progress ==
    \E m \in DOMAIN converter.monitor :
        \/ ConverterMonWhile(m)
        \/ ConverterMonCallback(m)
        \/ ConverterMonFinal(m)
        \/ ConverterMonExit(m)
        \/ ConverterMonShutdown(m)

\* ------------------------------------------------------------ specification

Next ==
    \/ add_file_task
    \/ start
    \/ cancel
    \/ reset
    \/ _monitor_progress
    \/ _process_task

Spec == Init /\ [][Next]_vars

\* Spec with the scheduling the threads get: a started monitor thread and a
\* submitted work item keep being scheduled, and every conversion call ends.
\* The caller is not obliged to make any call.
FairSpec ==
    /\ Init /\ [][Next]_vars
    /\ WF_vars(_monitor_progress)
    /\ WF_vars(_process_task)


\* The task with the given status as the program leaves it at clock reading 1:
\* claimed tasks carry a start_time, finished ones an end_time, failed ones
\* the message the conversion returned.
TaskAs(status, id) ==
    [NewTask EXCEPT
        !.status = status,
        !.error = IF status = "failed" THEN Some(ReturnFail.message) ELSE None,
        !.start_time = IF status = "pending" THEN None ELSE Some(1),
        !.end_time = IF status \in Terminal THEN Some(1) ELSE None,
        !.sub = 0,
        !.own = IF status = "completed" THEN ReturnOk
                ELSE IF status = "failed" THEN ReturnFail ELSE NoOutcome,
        !.claims = IF status = "pending" THEN 0 ELSE 1,
        !.cseq = IF status = "pending" THEN 0 ELSE id + 1,
        !.ends = IF status \in Terminal THEN 1 ELSE 0]

\* A registry of n tasks, d of them finished, during a second run that
\* follows a cancelled one: ids 0..d-1 are finished (the last of them
\* cancelled when d >= 3, the one before failed when d >= 2, the others
\* completed), then come the tasks in the pool (up to max_workers when busy,
\* none otherwise), then the pending ones.
SnapInit ==
    \E n \in 0..MaxTotal : \E d \in 0..n : \E busy \in BOOLEAN :
        LET x == IF d >= 3 THEN 1 ELSE 0
            f == IF d >= 2 THEN 1 ELSE 0
            c == d - f - x
            q == IF ~busy THEN 0
                 ELSE IF n - d < max_workers THEN n - d ELSE max_workers
            StatusOf(i) ==
                IF i < c THEN "completed"
                ELSE IF i < c + f THEN "failed"
                ELSE IF i < d THEN "cancelled"
                ELSE IF i < d + q THEN "processing"
                ELSE "pending"
        IN /\ runs = 2
           /\ tasks = [i \in 0..(n - 1) |-> TaskAs(StatusOf(i), i)]
           /\ completed_tasks = [k \in 1..c |-> k - 1]
           /\ failed_tasks = [k \in 1..(d - c) |-> c + k - 1]
           /\ processing_tasks = d..(d + q - 1)
           /\ pending_tasks = [k \in 1..(n - d - q) |-> d + q + k - 1]
           /\ running = TRUE
           /\ cancel_requested = FALSE
           /\ mon = <<"done", "callback">>
           /\ workers = {[id |-> i, ep |-> 0, run |-> 2, pc |-> "converting",
                          out |-> NoOutcome] : i \in d..(d + q - 1)}
           /\ calls = 0
           /\ lastCall = Returned("init", FALSE, 0)
           /\ epoch = 0
           /\ clock = 1
           /\ snapshots = <<>>
           /\ Apart

SnapNext ==
    \/ PollSnapshot
    \/ Tick

\* The snapshot as a function of the registry and the clock: the registry is
\* drawn by SnapInit and stays as it is, the clock moves and the caller polls.
SnapSpec == SnapInit /\ [][SnapNext]_vars

\* A run at work: the state add_file_task(a); start(cb) and the monitor's
\* first claim lead to (task 0 processing, its work item submitted and not
\* begun, the monitor about to call back).  The budget of API calls stands
\* at 1 here, which leaves the caller MaxCalls - 1 further calls.
ActiveInit ==
    /\ runs = 1
    /\ tasks = (0 :> TaskAs("processing", 0))
    /\ pending_tasks = <<>>
    /\ processing_tasks = {0}
    /\ completed_tasks = <<>>
    /\ failed_tasks = <<>>
    /\ running = TRUE
    /\ cancel_requested = FALSE
    /\ mon = <<"callback">>
    /\ workers = {[id |-> 0, ep |-> 0, run |-> 1, pc |-> "queued", out |-> NoOutcome]}
    /\ calls = 1
    /\ lastCall = Returned("start", TRUE, 0)
    /\ epoch = 0
    /\ clock = 1
    /\ snapshots = <<>>
    /\ Apart

\* The program from a run at work.
ActiveSpec == ActiveInit /\ [][Next]_vars

\* The program with callers on two threads: start() is also called from a
\* second thread, whose checks and assignments other steps can come between.
\* (The pool object is not part of the state: a submit() to a pool that another
\* monitor has shut down is taken as an ordinary submit.)
ThreadsNext ==
    \/ Next
    \/ start_on_other_thread

ThreadsSpec == Init /\ [][ThreadsNext]_vars

\* The program with each progress callback in two steps, the evaluation of its
\* first two arguments and the snapshot with the call, so that other threads
\* can act in between.
CallbackNext ==
    \/ add_file_task
    \/ start
    \/ cancel
    \/ reset
    \/ _monitor_progress_by_argument
    \/ _process_task

CallbackSpec == Init /\ [][CallbackNext]_vars

\* The BatchConverter with its caller, its pool and its monitor threads; the
\* BatchService stays as constructed.
ConverterNext ==
    \/ add_task
    \/ converter_start
    \/ stop
    \/ converter_process_task
    \/ converter_monitor_progress

ConverterSpec == Init /\ [][ConverterNext]_vars

\* ------------------------------------------------------------------ claims

Ids == DOMAIN tasks
ListIds == Range(pending_tasks) \cup Range(completed_tasks) \cup Range(failed_tasks)
NoDuplicates(s) == \A i, j \in DOMAIN s : s[i] = s[j] => i = j

\* C1 (as stated): with no Reset, once a started run has ended and every task
\* was submitted before its Start, completed + failed/cancelled counts add up
\* to the number of tasks and no task is pending or processing.
Conservation ==
    (epoch = 0 /\ runs >= 1 /\ ~running /\ \A i \in Ids : tasks[i].sub < runs)
    => /\ Len(completed_tasks) + Len(failed_tasks) = Cardinality(Ids)
       /\ Len(pending_tasks) = 0
       /\ Cardinality(processing_tasks) = 0

\* C2: in every reachable state the processing set holds at most max_workers ids.
BoundedConcurrency == Cardinality(processing_tasks) <= max_workers

\* C2 witness: a second run has claimed up to the limit while a work item of
\* the first, cancelled run is still in flight.
BoundedConcurrencyWitness ==
    /\ runs = 2
    /\ Cardinality(processing_tasks) = max_workers
    /\ \E w \in workers : w.run = 1 /\ w.ep = epoch /\ w.id \in processing_tasks
    /\ \E w \in workers : w.run = 2

\* C3: every task id of the registry is in exactly one of the four
\* collections, the one its status names; the collections hold no other id.
PartitionInvariant ==
    /\ NoDuplicates(pending_tasks)
    /\ NoDuplicates(completed_tasks)
    /\ NoDuplicates(failed_tasks)
    /\ Range(pending_tasks) \cap processing_tasks = {}
    /\ Range(pending_tasks) \cap Range(completed_tasks) = {}
    /\ Range(pending_tasks) \cap Range(failed_tasks) = {}
    /\ processing_tasks \cap Range(completed_tasks) = {}
    /\ processing_tasks \cap Range(failed_tasks) = {}
    /\ Range(completed_tasks) \cap Range(failed_tasks) = {}
    /\ ListIds \cup processing_tasks = Ids
    /\ \A i \in Ids :
        /\ tasks[i].status = "pending" <=> i \in Range(pending_tasks)
        /\ tasks[i].status = "processing" <=> i \in processing_tasks
        /\ tasks[i].status = "completed" <=> i \in Range(completed_tasks)
        /\ tasks[i].status \in {"failed", "cancelled"} <=> i \in Range(failed_tasks)

\* C3 witness: all four collections are non-empty at once.
PartitionWitness ==
    /\ Len(pending_tasks) > 0
    /\ Cardinality(processing_tasks) > 0
    /\ Len(completed_tasks) > 0
    /\ Len(failed_tasks) > 0

\* C4 (as stated): a task that was pending when the monitor observed the
\* cancellation flag is cancelled and out of the pending list once the run
\* has ended.
CancelRelabelsPending ==
    \A i \in Ids :
        (tasks[i].seen /\ ~running)
        => tasks[i].status = "cancelled" /\ i \notin Range(pending_tasks)

\* C5 (as stated): a task that was pending when the monitor observed the
\* cancellation flag is never claimed afterwards.
NoDispatchAfterCancel ==
    \A i \in Ids : tasks[i].seen => tasks[i].status \in {"pending", "cancelled"}

OutcomeStatus(out) ==
    IF out.kind = "return" /\ out.success = TRUE THEN "completed" ELSE "failed"

Quiescent == workers = {} /\ \A r \in DOMAIN mon : mon[r] = "done"

\* C7 (as stated, in the form a finite run decides): after an accepted Start
\* the threads cannot all come to rest before the run is inactive and every
\* task submitted before that Start is terminal.
DrainsBeforeRest ==
    (runs >= 1 /\ Quiescent)
    => /\ ~running
       /\ \A i \in Ids : tasks[i].sub < runs => tasks[i].status \in Terminal

\* The drain of the first run as a liveness property (under FairSpec it holds
\* of the behaviours in which the caller neither cancels nor resets).
DrainLiveness ==
    (runs = 1) ~> (~running /\ \A i \in Ids : tasks[i].sub = 0 => tasks[i].status \in Terminal)

\* C8 (as stated): a task recorded completed or failed got there by its own
\* call: completed exactly when that call returned success, and failed with
\* the returned message when it returned failure.
IsolatedOutcome ==
    \A i \in Ids :
        tasks[i].status \in {"completed", "failed"}
        => /\ tasks[i].own # NoOutcome
           /\ tasks[i].status = OutcomeStatus(tasks[i].own)
           /\ (tasks[i].own.kind = "return" /\ ~tasks[i].own.success)
              => tasks[i].error = Some(tasks[i].own.message)

\* C9 (as stated): a worker whose call raised records its task failed with an
\* error text that contains the exception's type and its message.
ExceptionCapture ==
    [][\A w \in workers :
          (w.pc = "returned" /\ w.out.kind = "raise" /\ w \notin workers'
           /\ w.id \in processing_tasks)
          => /\ tasks'[w.id].status = "failed"
             /\ tasks'[w.id].error # None
             /\ Contains(tasks'[w.id].error[1], w.out.type)
             /\ Contains(tasks'[w.id].error[1], w.out.message)
      ]_vars

\* C10: start() returns false exactly when a run is active or nothing is
\* pending, and then changes nothing; otherwise it returns true, marks the run
\* active, clears the cancellation flag and starts one monitor.
StartContract ==
    [][(calls' = calls + 1 /\ lastCall'.op = "start")
       => /\ lastCall'.ok = FALSE <=> (running \/ Len(pending_tasks) = 0)
          /\ ~lastCall'.ok
             => UNCHANGED <<registry, running, cancel_requested, mon, workers>>
          /\ lastCall'.ok
             => /\ running' /\ ~cancel_requested'
                /\ Len(mon') = Len(mon) + 1
                /\ UNCHANGED <<registry, workers>>
      ]_vars

\* C10 witness: a start() accepted earlier has a run active, and the last
\* call was a start() that was refused.
StartContractWitness ==
    /\ lastCall = Returned("start", FALSE, 0)
    /\ runs >= 1
    /\ running
    /\ Len(pending_tasks) > 0

\* A step that is the return of an API call.
CallReturns(op) == calls' = calls + 1 /\ lastCall'.op = op

\* C11 (as stated): when a reset() made during an active run returns, the run
\* is inactive, no work item submitted before it is left in the pool, and the
\* monitor of that run has left its loop.
ResetWaitsForDrain ==
    [][(CallReturns("reset") /\ running)
       => /\ ~is_running'
          /\ workers' = {}
          /\ \A r \in DOMAIN mon' : mon'[r] \in {"final_callback", "done"}
      ]_vars

\* All four collections are empty and get_results() reports no task.
ResetClean ==
    /\ get_results.total = 0
    /\ get_results.completed = 0
    /\ get_results.failed = 0
    /\ Len(pending_tasks) = 0
    /\ Cardinality(processing_tasks) = 0
    /\ Len(completed_tasks) = 0
    /\ Len(failed_tasks) = 0

\* C12: a reset() returns with the registry clean, and a clean registry after
\* a reset stays clean through every step that is not an add_file_task, the
\* steps of work items submitted before the reset included.
ResetSemantics ==
    [][/\ CallReturns("reset") => ResetClean'
       /\ (epoch >= 1 /\ ResetClean /\ ~CallReturns("add_file_task")) => ResetClean'
      ]_vars

\* C12 witness: the last call was a reset(), the registry is clean, and a work
\* item submitted before the reset has finished its conversion and is about to
\* record.
ResetSemanticsWitness ==
    /\ lastCall.op = "reset"
    /\ ResetClean
    /\ \E w \in workers : w.pc = "returned" /\ w.ep < epoch

\* C13: the n-th claim made on a registry takes the n-th task submitted to it
\* (ids are handed out in submission order, id = len(self.tasks)), so no task
\* is claimed before one submitted earlier.
FifoClaimOrder ==
    /\ \A i \in Ids : tasks[i].cseq # 0 => tasks[i].cseq = i + 1
    /\ \A i, j \in Ids :
        (i < j /\ tasks[j].cseq # 0)
        => tasks[i].cseq # 0 /\ tasks[i].cseq < tasks[j].cseq

\* C13 witness: during a run two tasks have been claimed, the later one
\* submitted after that run's start().
FifoClaimWitness ==
    /\ running
    /\ runs >= 1
    /\ \E i, j \in Ids :
        /\ i < j
        /\ tasks[i].cseq # 0
        /\ tasks[j].cseq # 0
        /\ tasks[j].sub = runs

\* C14: no task is claimed more than once, and the pools never hold two work
\* items for one task.
NoDoubleClaim ==
    /\ \A i \in Ids : tasks[i].claims <= 1
    /\ \A w1, w2 \in workers : (w1.id = w2.id /\ w1.ep = w2.ep) => w1 = w2

\* C14 witness: a task left pending by a cancelled first run has been claimed
\* by the second run, and its work item is in the pool.
NoDoubleClaimWitness ==
    \E w \in workers :
        /\ w.run = 2
        /\ w.ep = epoch
        /\ w.id \in Ids
        /\ tasks[w.id].seen
        /\ tasks[w.id].claims = 1

\* C15: a task that is completed, failed or cancelled keeps its status, error
\* and end_time, and no result is recorded on it again, for as long as it is in
\* the registry.
TerminalAbsorbing ==
    [][\A i \in Ids \cap DOMAIN tasks' :
          tasks[i].status \in Terminal
          => /\ tasks'[i].status = tasks[i].status
             /\ tasks'[i].error = tasks[i].error
             /\ tasks'[i].end_time = tasks[i].end_time
             /\ tasks'[i].ends = tasks[i].ends
      ]_vars

\* C15 witness: a finished task whose id is also held by a work item submitted
\* before the last reset, which is about to record.
TerminalAbsorbingWitness ==
    \E w \in workers :
        /\ w.ep < epoch
        /\ w.pc = "returned"
        /\ w.id \in Ids
        /\ tasks[w.id].status \in Terminal
        /\ tasks[w.id].ends = 1

\* C16 (as stated): the final callback of a run is made when nothing is
\* pending or processing and its snapshot shows every task terminal.
FinalCallbackAfterDrain ==
    [][\A r \in DOMAIN mon :
          (mon[r] = "final_callback" /\ mon'[r] = "done")
          => /\ Len(pending_tasks) = 0
             /\ Cardinality(processing_tasks) = 0
             /\ \A i \in Ids : tasks[i].status \in Terminal
      ]_vars

\* The fields of the task dicts the program holds (the history fields left out).
TaskFields(t) ==
    [i \in DOMAIN t |->
        [status |-> t[i].status, error |-> t[i].error, start_time |-> t[i].start_time,
         end_time |-> t[i].end_time, duration |-> t[i].duration]]

\* C17: a cancel() changes nothing but the flag; with no run active it leaves
\* the flag as it is, during a run it sets it, and a cancel() that finds the
\* flag set changes nothing at all.
CancelContract ==
    [][CallReturns("cancel")
       => /\ UNCHANGED <<pending_tasks, processing_tasks, completed_tasks, failed_tasks,
                         running, mon, workers, clock>>
          /\ TaskFields(tasks') = TaskFields(tasks)
          /\ ~running => cancel_requested' = cancel_requested
          /\ running => cancel_requested'
      ]_vars

\* C17 witness: after a run has ended the caller has called cancel() with
\* tasks waiting, and the flag is not set.
CancelContractWitness ==
    /\ lastCall.op = "cancel"
    /\ ~running
    /\ ~cancel_requested
    /\ runs >= 1
    /\ Len(pending_tasks) > 0

\* C18 (as stated): two consecutive polls, with the registry untouched in
\* between, return equal values, the durations of processing tasks included.
IdempotentRead == Len(snapshots) = 2 => snapshots[1] = snapshots[2]

\* A snapshot with the durations of its processing tasks blanked.
WithoutLiveDurations(info) ==
    [info EXCEPT !.processing =
        [k \in DOMAIN info.processing |-> [info.processing[k] EXCEPT !.duration = 0]]]

\* C18 (amended): a poll changes nothing of the service, and two consecutive
\* polls with the registry untouched in between return equal values except
\* for the durations of processing tasks, which are the time since the claim
\* at each poll and so never decrease from one poll to the next.
IdempotentReadButLive ==
    /\ [][snapshots' # snapshots
          => UNCHANGED <<registry, running, cancel_requested, mon, workers, clock>>]_vars
    /\ [](Len(snapshots) = 2
          => /\ WithoutLiveDurations(snapshots[1]) = WithoutLiveDurations(snapshots[2])
             /\ \A k \in DOMAIN snapshots[2].processing :
                  snapshots[2].processing[k].duration
                      >= snapshots[1].processing[k].duration)

\* C18 witness: two polls were made with the clock moving in between, on a
\* registry with finished, processing and pending tasks; the two values differ.
IdempotentReadWitness ==
    /\ Len(snapshots) = 2
    /\ snapshots[1] # snapshots[2]
    /\ Len(snapshots[2].processing) > 0
    /\ Len(snapshots[2].completed) > 0
    /\ Len(snapshots[2].failed) > 0
    /\ Len(snapshots[2].pending) > 0

\* C19 (as stated): the percentage of every snapshot is
\* floor((completed + failed + cancelled) * 100 / total) of its own counts (0
\* with no task), lies in 0..100, and is 100 exactly when no task of a
\* non-empty registry is pending or processing.
SnapshotPercentage ==
    \A k \in DOMAIN snapshots :
        LET info == snapshots[k]
            done == info.completed_count + info.failed_count
        IN /\ info.percentage =
                 IF info.total > 0 THEN (done * 100) \div info.total ELSE 0
           /\ info.percentage \in 0..100
           /\ info.total > 0
              => (info.percentage = 100
                  <=> Len(info.pending) = 0 /\ Len(info.processing) = 0)

\* The fields a new task dict is created with.
FreshFields ==
    [status |-> "pending", error |-> None, start_time |-> None,
     end_time |-> None, duration |-> 0]

\* C20: an add_file_task() can be made in every state (within the budget of
\* calls); it returns an id no task of the registry has, adds under that id
\* one pending task, appends the id to the pending list and changes nothing
\* else.
AddTaskContract ==
    /\ [](calls < MaxCalls => ENABLED add_file_task)
    /\ [][CallReturns("add_file_task")
          => /\ lastCall'.ok
             /\ lastCall'.id \notin DOMAIN tasks
             /\ DOMAIN tasks' = DOMAIN tasks \cup {lastCall'.id}
             /\ TaskFields(tasks')[lastCall'.id] = FreshFields
             /\ \A i \in DOMAIN tasks : tasks'[i] = tasks[i]
             /\ pending_tasks' = Append(pending_tasks, lastCall'.id)
             /\ UNCHANGED <<processing_tasks, completed_tasks, failed_tasks,
                            running, cancel_requested, mon, workers, clock>>
         ]_vars

\* C20 witness: the last call added a task while a run was claiming and
\* working on earlier ones; the new task waits behind another pending task.
AddTaskWitness ==
    /\ lastCall.op = "add_file_task"
    /\ running
    /\ \E w \in workers : w.pc = "converting" /\ w.ep = epoch
    /\ \E r \in DOMAIN mon : mon[r] = "claim"
    /\ Len(pending_tasks) >= 2
    /\ pending_tasks[Len(pending_tasks)] = lastCall.id
    /\ \E i \in Ids : tasks[i].status \in Terminal

\* C21 (as stated): a task's fields are written only by the claiming loop and
\* by the worker that was dispatched for that very task: every step that
\* changes the status, error, start_time, end_time or duration of a task is
\* the claim of that task or a step of a worker submitted for its id in the
\* registry the task belongs to (never a worker dispatched before a reset()).
SingleWriter ==
    [][\A i \in DOMAIN tasks \cap DOMAIN tasks' :
          TaskFields(tasks')[i] # TaskFields(tasks)[i]
          => \/ /\ tasks[i].status = "pending"
                /\ tasks'[i].status = "processing"
                /\ \E r \in DOMAIN mon : mon[r] = "claim" /\ mon'[r] = "callback"
             \/ /\ UNCHANGED calls
                /\ \E w \in workers \ workers' : w.id = i /\ w.ep = epoch
      ]_vars

\* C23 (as stated): a cancelled task never ran: for every task whose status is
\* cancelled, the conversion function was never invoked with that task's
\* paths (no worker dispatched for it is in, or has returned from, the
\* conversion) and its error field is unset.
CancelledNeverRan ==
    \A i \in Ids :
        tasks[i].status = "cancelled"
        => /\ tasks[i].own = NoOutcome
           /\ tasks[i].error = None
           /\ ~\E w \in workers :
                 w.id = i /\ w.ep = epoch /\ w.pc \in {"converting", "returned"}

\* The positions of _monitor_progress inside its while loop.
InLoop == {"while_pending", "while_processing", "check_cancel", "claim", "callback"}

\* C24 (as stated): at most one scheduler loop is active at any time, whatever
\* the interleaving of start() calls from different threads and of start()
\* with the end of the previous run.
SingleLoop ==
    Cardinality({r \in DOMAIN mon : mon[r] \in InLoop}) <= 1

\* C25: every pass of the monitor through its locked region claims exactly
\* min(max_workers - processing, pending) tasks when that number is positive
\* and none otherwise, the two counts being those of the state the claim is
\* made in: so many ids leave pending_tasks, so many enter processing_tasks
\* with status processing, and so many work items are submitted.
ClaimBatchSize ==
    [][\A r \in DOMAIN mon :
          mon[r] = "claim" /\ mon'[r] = "callback"
          => LET free == max_workers - Cardinality(processing_tasks)
                 waiting == Len(pending_tasks)
                 batch == IF free > 0 /\ waiting > 0
                          THEN (IF free < waiting THEN free ELSE waiting)
                          ELSE 0
             IN /\ Len(pending_tasks') = waiting - batch
                /\ Cardinality(processing_tasks' \ processing_tasks) = batch
                /\ processing_tasks \subseteq processing_tasks'
                /\ Cardinality({i \in DOMAIN tasks :
                                   /\ tasks[i].status = "pending"
                                   /\ tasks'[i].status = "processing"}) = batch
                /\ Cardinality(workers' \ workers) = batch
      ]_vars

\* C25 witness: the first pass of a run has just claimed max_workers tasks at
\* once (their work items are all still queued) and left a task that was
\* submitted before the run pending.
ClaimBatchWitness ==
    /\ runs = 1 /\ epoch = 0
    /\ mon = <<"callback">>
    /\ Cardinality(processing_tasks) = max_workers
    /\ \A i \in processing_tasks :
          \E w \in workers : w.id = i /\ w.pc = "queued" /\ w.run = 1
    /\ Len(pending_tasks) > 0
    /\ tasks[pending_tasks[1]].sub = 0
    /\ completed_tasks = <<>> /\ failed_tasks = <<>>

\* A cancel() was accepted while tasks were processing, and no reset() followed.
CancelledInFlight == epoch = 0 /\ \E i \in Ids : tasks[i].pac

\* C26: after a cancel() during a run, with every conversion call returning or
\* raising and no reset(), every task that was processing at the call is from
\* some moment on in a terminal state and out of the processing set, and a
\* snapshot polled from then on lists no processing task.
DrainAfterCancel ==
    <>[](CancelledInFlight
         => /\ \A i \in Ids :
                  tasks[i].pac
                  => tasks[i].status \in Terminal /\ i \notin processing_tasks
            /\ Len(_get_progress_info.processing) = 0)

\* C26 witness: cancel() was called while a task was processing and its call
\* under way; the call has ended, the task is terminal, nothing is processing
\* and all threads are at rest.
DrainAfterCancelWitness ==
    /\ epoch = 0
    /\ \E i \in Ids :
          /\ tasks[i].pac /\ tasks[i].mid
          /\ tasks[i].status \in Terminal
    /\ processing_tasks = {}
    /\ Len(_get_progress_info.processing) = 0
    /\ Quiescent

\* C27 (as stated): the first start() of a caller that has reset the registry
\* and then added tasks (every task of the registry was added after the last
\* accepted start) returns True, also when the previous run is still active.
RestartAfterReset ==
    [][(/\ CallReturns("start")
        /\ epoch >= 1
        /\ lastCall.op = "add_file_task"
        /\ Ids # {}
        /\ \A i \in Ids : tasks[i].sub = runs)
       => lastCall'.ok]_vars

\* C28 (as stated): a run that was not cancelled never becomes inactive while
\* a task is still pending: whenever the monitor sets running to False with
\* the cancellation flag unset, pending_tasks is empty.
NoStrandedSubmission ==
    [][(running /\ ~running' /\ ~cancel_requested) => Len(pending_tasks) = 0]_vars

\* C29 (as stated): in every invocation of the progress callback the first two
\* arguments agree with the snapshot passed as third: the first is the
\* snapshot's completed_count + failed_count and the second its total.
CallbackArgsAgree ==
    [][\A e \in cbargs \ cbargs' :
          /\ e.completed = _get_progress_info.completed_count
                           + _get_progress_info.failed_count
          /\ e.total = _get_progress_info.total
      ]_vars

====
